---- MODULE Spec2Model ----
(***************************************************************************)
(* Model of the FSSAI additive compliance core:                            *)
(*   fssai_kb.py  FSSAIKnowledgeBase  (load, lookup_by_ins, lookup_by_name,*)
(*                                     get_all_additives)                  *)
(*   analyzer.py  IngredientsAnalyzer (extract_additives,                  *)
(*                                     analyze_ingredient,                 *)
(*                                     analyze_ingredients_text,           *)
(*                                     _determine_product_compliance)      *)
(*   models.py    IngredientDetail    (field validation)                   *)
(*                                                                         *)
(* Representation.  A Python str is a sequence of one-character strings,   *)
(* so that str.lower() and the regular expressions are computed character  *)
(* by character.  A Python Optional value is a set with at most one        *)
(* element: {} is None and {v} is the value v.  A JSON object is a         *)
(* function from the keys it has to Optional values (a key mapped to {} is *)
(* a JSON null).  A JSON number is [whole |-> n, tenths |-> d].            *)
(***************************************************************************)
EXTENDS Integers, Sequences, FiniteSets, TLC

VARIABLES
    data_source,        \* the file at FSSAIKnowledgeBase.data_path
    additives,          \* FSSAIKnowledgeBase.additives   (code -> record)
    name_to_ins,        \* FSSAIKnowledgeBase.name_to_ins (lower name -> Optional code)
    loaded,             \* FSSAIKnowledgeBase.loaded
    ingredients_text,   \* the text handed to analyze_ingredients_text
    result,             \* outcome of the last analyze_ingredients_text call
    lastOp,             \* the last public method that was called
    lookup,             \* value returned by the last lookup / get_all_additives
    ingredients,        \* argument of _determine_product_compliance
    product_compliance, \* value returned by _determine_product_compliance
    pc,                 \* concurrent callers: position inside lookup_by_ins / load
    data,               \* concurrent callers: the list json.load returned to each
    idx,                \* concurrent callers: position of each in the indexing loop
    ret,                \* concurrent callers: value lookup_by_ins returned to each
    loadRuns            \* number of times the body of load was entered

vars == <<data_source, additives, name_to_ins, loaded, ingredients_text, result,
          lastOp, lookup, ingredients, product_compliance, pc, data, idx, ret,
          loadRuns>>

kbVars == <<additives, name_to_ins, loaded>>
concVars == <<pc, data, idx, ret, loadRuns>>

(***************************************************************************)
(* Bounds of the model.                                                    *)
(***************************************************************************)
MaxRecords == 2     \* records in the dataset file
MaxTokens == 4      \* tokens an ingredient text is assembled from
MaxDetails == 3     \* details handed to _determine_product_compliance directly
NumCallers == 2     \* concurrent first callers of lookup_by_ins

(***************************************************************************)
(* Python values.                                                          *)
(***************************************************************************)
None == {}
Some(v) == {v}
TheValue(opt) == CHOOSE v \in opt : TRUE

UpperCase == <<"A","B","C","D","E","F","G","H","I","J","K","L","M",
               "N","O","P","Q","R","S","T","U","V","W","X","Y","Z">>
LowerCase == <<"a","b","c","d","e","f","g","h","i","j","k","l","m",
               "n","o","p","q","r","s","t","u","v","w","x","y","z">>

\* str.lower() on the upper-case letters
LowerOf == [c \in {UpperCase[i] : i \in 1..26} |->
                LowerCase[CHOOSE i \in 1..26 : UpperCase[i] = c]]

\* one character of str.lower()
CharLower(c) == IF c \in DOMAIN LowerOf THEN LowerOf[c] ELSE c

\* str.lower()
StrLower(s) == [i \in 1..Len(s) |-> CharLower(s[i])]

\* regular expression classes \d and \s
IsDigit(c) == c \in {"0","1","2","3","4","5","6","7","8","9"}
IsSpace(c) == c \in {" ", "\t", "\n", "\r"}

\* truth value of an Optional str: None and "" are false
Truthy(opt) == opt # None /\ opt # Some(<<>>)

\* dict.get(key) and dict.get(key, default) on a JSON object
DictGet(obj, key) == IF key \in DOMAIN obj THEN obj[key] ELSE None
DictGetDefault(obj, key, default) ==
    IF key \in DOMAIN obj THEN obj[key] ELSE Some(default)

\* d[key] = value
DictSet(d, key, value) ==
    [k \in DOMAIN d \cup {key} |-> IF k = key THEN value ELSE d[k]]

EmptyDict == [k \in {} |-> None]

(***************************************************************************)
(* String literals of the program.                                         *)
(***************************************************************************)
S_permitted == <<"p","e","r","m","i","t","t","e","d">>
S_restricted == <<"r","e","s","t","r","i","c","t","e","d">>
S_banned == <<"b","a","n","n","e","d">>
S_unknown == <<"u","n","k","n","o","w","n">>

(***************************************************************************)
(* analyzer.py: extract_additives.                                         *)
(*   ins_pattern = (?:INS[\s-]?(\d{3,4})(?:\s*\([^)]+\))?)                 *)
(*   e_pattern   = (?:E[\s-]?(\d{3,4})(?:\s*\([^)]+\))?)                   *)
(* both used with re.IGNORECASE.                                           *)
(***************************************************************************)
INS_MARKER == <<"i","n","s">>
E_MARKER == <<"e">>
MinCodeDigits == 3
MaxCodeDigits == 4

\* the literal marker, compared case-insensitively, at position p
MarkerAt(text, p, marker) ==
    /\ p + Len(marker) - 1 <= Len(text)
    /\ \A k \in 1..Len(marker) : CharLower(text[p + k - 1]) = marker[k]

\* [\s-]? : the position after the optional separator that starts at q
AfterSeparator(text, q) ==
    IF q <= Len(text) /\ (IsSpace(text[q]) \/ text[q] = "-") THEN q + 1 ELSE q

\* \d{3,4}, greedy: how many digits (at most MaxCodeDigits) start at q
RECURSIVE DigitRun(_, _, _)
DigitRun(text, q, n) ==
    IF n < MaxCodeDigits /\ q + n <= Len(text) /\ IsDigit(text[q + n])
    THEN DigitRun(text, q, n + 1)
    ELSE n

\* \s* : the first position at or after q that holds no whitespace
RECURSIVE SkipSpaces(_, _)
SkipSpaces(text, q) ==
    IF q <= Len(text) /\ IsSpace(text[q]) THEN SkipSpaces(text, q + 1) ELSE q

\* [^)]+ : the first position at or after q that holds ")" (Len+1 if none)
RECURSIVE FirstClose(_, _)
FirstClose(text, q) ==
    IF q <= Len(text) /\ text[q] # ")" THEN FirstClose(text, q + 1) ELSE q

\* (?:\s*\([^)]+\))? : the last position of the match whose digits end at e-1
AnnotationEnd(text, e) ==
    LET a == SkipSpaces(text, e)
        c == FirstClose(text, a + 1)
    IN  IF /\ a <= Len(text)
           /\ text[a] = "("
           /\ c <= Len(text)
           /\ c >= a + 2
        THEN c
        ELSE e - 1

\* MatchAt with the capture group opened before the separator
MatchAt_GroupWithSeparator(text, p, marker) ==
    LET q == AfterSeparator(text, p + Len(marker))
        n == DigitRun(text, q, 0)
        last == AnnotationEnd(text, q + n)
    IN  IF MarkerAt(text, p, marker) /\ n >= MinCodeDigits
        THEN [found |-> TRUE, last |-> last,
              raw |-> SubSeq(text, p, last),
              code |-> SubSeq(text, p + Len(marker), q + n - 1)]
        ELSE [found |-> FALSE, last |-> p, raw |-> <<>>, code |-> <<>>]

\* the match of one pattern anchored at p: [found, last, raw, code]
MatchAt(text, p, marker) ==
    LET q == AfterSeparator(text, p + Len(marker))
        n == DigitRun(text, q, 0)
        last == AnnotationEnd(text, q + n)
    IN  IF MarkerAt(text, p, marker) /\ n >= MinCodeDigits
        THEN [found |-> TRUE, last |-> last,
              raw |-> SubSeq(text, p, last),
              code |-> SubSeq(text, q, q + n - 1)]
        ELSE [found |-> FALSE, last |-> p, raw |-> <<>>, code |-> <<>>]

\* re.finditer: the non-overlapping matches from position p on, left to right,
\* each as the tuple (match.group(0), match.group(1))
RECURSIVE finditer(_, _, _)
finditer(text, p, marker) ==
    IF p > Len(text) THEN <<>>
    ELSE LET m == MatchAt(text, p, marker)
         IN  IF m.found
             THEN <<[raw |-> m.raw, code |-> m.code]>>
                      \o finditer(text, m.last + 1, marker)
             ELSE finditer(text, p + 1, marker)

\* extract_additives with the two passes in the other order
extract_additives_EFirst(text) ==
    finditer(text, 1, E_MARKER) \o finditer(text, 1, INS_MARKER)

extract_additives(text) ==
    finditer(text, 1, INS_MARKER) \o finditer(text, 1, E_MARKER)

(***************************************************************************)
(* fssai_kb.py: FSSAIKnowledgeBase.  The knowledge base is handled as the   *)
(* record kb = [additives, name_to_ins, loaded]; the source is              *)
(* src = [kind, records] with kind "missing" (data_path.exists() is false), *)
(* "corrupt" (open or json.load raises) or "ok" (json.load returns records).*)
(***************************************************************************)
NewKB == [additives |-> EmptyDict, name_to_ins |-> EmptyDict, loaded |-> FALSE]

\* one element of the JSON list: an object with its members, or another value
JsonObject(members) == [type |-> "object", members |-> members]
JsonNumber == [type |-> "number", members |-> EmptyDict]

\* the loop body raises: additive.get on a non-object, or None.lower()
RecordRaises(additive) ==
    \/ additive.type # "object"
    \/ DictGetDefault(additive.members, "name", <<>>) = None

\* one iteration of the indexing loop that does not raise
IndexOne(kb, additive) ==
    LET ins_number == DictGet(additive.members, "ins_number")
        name == StrLower(TheValue(DictGetDefault(additive.members, "name", <<>>)))
        adds == IF Truthy(ins_number)
                THEN DictSet(kb.additives, TheValue(ins_number), additive.members)
                ELSE kb.additives
        names == IF name # <<>>
                 THEN DictSet(kb.name_to_ins, name, ins_number)
                 ELSE kb.name_to_ins
    IN  [kb EXCEPT !.additives = adds, !.name_to_ins = names]

\* the indexing loop from record i on; an exception leaves the loop
RECURSIVE IndexRecords(_, _, _)
IndexRecords(records, i, kb) ==
    IF i > Len(records) THEN kb
    ELSE IF RecordRaises(records[i]) THEN kb
    ELSE IndexRecords(records, i + 1, IndexOne(kb, records[i]))

\* load when data_path does not exist
LoadMissing(kb) == [kb EXCEPT !.loaded = TRUE]

\* LoadFailed with the except branch leaving the flag alone
LoadFailed_NoFlag(kb) == kb

\* load when open or json.load raises: the except branch
LoadFailed(kb) == [kb EXCEPT !.loaded = TRUE]

load(kb, src) ==
    IF src.kind = "missing" THEN LoadMissing(kb)
    ELSE IF src.kind = "corrupt" THEN LoadFailed(kb)
    ELSE [IndexRecords(src.records, 1, kb) EXCEPT !.loaded = TRUE]

\* the implicit load at the head of every query method
EnsureLoaded(kb, src) == IF ~kb.loaded THEN load(kb, src) ELSE kb

\* self.additives.get(ins_number): the stored record, or None
AdditivesGet(adds, ins_number) ==
    IF ins_number \in DOMAIN adds THEN Some(adds[ins_number]) ELSE None

\* lookup_by_ins on a defaultdict: a miss leaves an empty record behind
lookup_by_ins_Memoize(kb, src, ins_number) ==
    LET kb1 == EnsureLoaded(kb, src)
        kb2 == IF ins_number \in DOMAIN kb1.additives THEN kb1
               ELSE [kb1 EXCEPT !.additives = DictSet(@, ins_number, EmptyDict)]
    IN  [kb |-> kb2, value |-> AdditivesGet(kb2.additives, ins_number)]

\* lookup_by_ins: the knowledge base afterwards and the value returned
lookup_by_ins(kb, src, ins_number) ==
    LET kb1 == EnsureLoaded(kb, src)
    IN  [kb |-> kb1, value |-> AdditivesGet(kb1.additives, ins_number)]

lookup_by_name(kb, src, name) ==
    LET kb1 == EnsureLoaded(kb, src)
        ins_number == DictGet(kb1.name_to_ins, StrLower(name))
    IN  [kb |-> kb1,
         value |-> IF Truthy(ins_number)
                   THEN AdditivesGet(kb1.additives, TheValue(ins_number))
                   ELSE None]

get_all_additives(kb, src) ==
    LET kb1 == EnsureLoaded(kb, src)
    IN  [kb |-> kb1, value |-> kb1.additives]

(***************************************************************************)
(* models.py: IngredientDetail.  pydantic validates the keyword arguments: *)
(* status is declared str (None is rejected), max_ppm is declared          *)
(* Optional[int] (None, an int or a float without fractional part pass and *)
(* the float is converted; a number with a fractional part is rejected).   *)
(***************************************************************************)
StatusValid(status) == status # None
MaxPpmValid(max_ppm) == max_ppm = None \/ TheValue(max_ppm).tenths = 0
IntFromNumber(max_ppm) ==
    IF max_ppm = None THEN None ELSE Some(TheValue(max_ppm).whole)

\* IngredientDetail(...) raises ValidationError
DetailRaises(status, max_ppm) == ~StatusValid(status) \/ ~MaxPpmValid(max_ppm)

IngredientDetail(raw, normalized_ins, name, status, max_ppm, allowed_in, notes) ==
    [raw |-> raw, normalized_ins |-> normalized_ins, name |-> name,
     status |-> TheValue(status), max_ppm |-> IntFromNumber(max_ppm),
     allowed_in |-> allowed_in, notes |-> notes]

(***************************************************************************)
(* analyzer.py: analyze_ingredient, analyze_ingredients_text and           *)
(* _determine_product_compliance.  The verdicts are kept as TLA+ strings.  *)
(***************************************************************************)
\* "if fssai_data": a record was found and it is not the empty dict
FoundRecord(value) == value # None /\ DOMAIN TheValue(value) # {}

\* UnknownDetail with the status of an unlisted additive left at permitted
UnknownDetail_Permitted(raw, ins_number) ==
    IngredientDetail(raw, Some(ins_number), None, Some(S_permitted),
                     None, None, None)

\* the detail of an additive that is not in the knowledge base
UnknownDetail(raw, ins_number) ==
    IngredientDetail(raw, Some(ins_number), None, Some(S_unknown),
                     None, None, None)

\* analyze_ingredient: [kb, raised, detail]
analyze_ingredient(kb, src, raw, ins_number) ==
    LET r == lookup_by_ins(kb, src, ins_number)
        fssai_data == TheValue(r.value)
        status == DictGetDefault(fssai_data, "status", S_unknown)
        max_ppm == DictGet(fssai_data, "max_ppm")
    IN  IF FoundRecord(r.value)
        THEN IF DetailRaises(status, max_ppm)
             THEN [kb |-> r.kb, raised |-> TRUE, detail |-> None]
             ELSE [kb |-> r.kb, raised |-> FALSE,
                   detail |-> Some(IngredientDetail(raw, Some(ins_number),
                                       DictGet(fssai_data, "name"), status, max_ppm,
                                       DictGet(fssai_data, "allowed_in"),
                                       DictGet(fssai_data, "notes")))]
        ELSE [kb |-> r.kb, raised |-> FALSE,
              detail |-> Some(UnknownDetail(raw, ins_number))]

\* _determine_product_compliance with permitted tested before unknown
_determine_product_compliance_PermittedFirst(ings) ==
    LET Has(status) == \E i \in 1..Len(ings) : StrLower(ings[i].status) = status
    IN  IF ings = <<>> THEN "unknown"
        ELSE IF Has(S_banned) THEN "non_compliant"
        ELSE IF Has(S_restricted) THEN "partially_compliant"
        ELSE IF Has(S_permitted) THEN "compliant"
        ELSE "unknown"

_determine_product_compliance(ings) ==
    LET Has(status) == \E i \in 1..Len(ings) : StrLower(ings[i].status) = status
        has_banned == Has(S_banned)
        has_restricted == Has(S_restricted)
        has_unknown == Has(S_unknown)
        has_permitted == Has(S_permitted)
    IN  IF ings = <<>> THEN "unknown"
        ELSE IF has_banned THEN "non_compliant"
        ELSE IF has_restricted THEN "partially_compliant"
        ELSE IF has_unknown THEN "unknown"
        ELSE IF has_permitted THEN "compliant"
        ELSE "unknown"

\* the loop over raw_additives from candidate i on: [kb, raised, ingredients]
RECURSIVE AnalyzeFrom(_, _, _, _, _)
AnalyzeFrom(kb, src, raw_additives, i, acc) ==
    IF i > Len(raw_additives)
    THEN [kb |-> kb, raised |-> FALSE, ingredients |-> acc]
    ELSE LET a == analyze_ingredient(kb, src, raw_additives[i].raw,
                                     raw_additives[i].code)
         IN  IF a.raised
             THEN [kb |-> a.kb, raised |-> TRUE, ingredients |-> <<>>]
             ELSE AnalyzeFrom(a.kb, src, raw_additives, i + 1,
                              Append(acc, TheValue(a.detail)))

\* analyze_ingredients_text: [kb, outcome, ingredients, product_compliance]
analyze_ingredients_text(kb, src, text) ==
    LET r == AnalyzeFrom(kb, src, extract_additives(text), 1, <<>>)
    IN  IF r.raised
        THEN [kb |-> r.kb, outcome |-> "raised", ingredients |-> <<>>,
              product_compliance |-> "none"]
        ELSE [kb |-> r.kb, outcome |-> "returned", ingredients |-> r.ingredients,
              product_compliance |-> _determine_product_compliance(r.ingredients)]

(***************************************************************************)
(* Inputs: dataset files, ingredient texts, detail lists.                  *)
(***************************************************************************)
SeqsUpTo(S, n) == UNION {[1..k -> S] : k \in 0..n}

C211 == <<"2","1","1">>
C330 == <<"3","3","0">>
C100 == <<"1","0","0">>
C999 == <<"9","9","9">>
N_Benzoate == <<"S","o","d","i","u","m"," ","B","e","n","z","o","a","t","e">>
N_Citric == <<"C","i","t","r","i","c"," ","A","c","i","d">>
N_Curcumin == <<"C","u","r","c","u","m","i","n">>
S_Restricted == <<"R","e","s","t","r","i","c","t","e","d">>
S_Permitted == <<"P","e","r","m","i","t","t","e","d">>
S_allowed == <<"a","l","l","o","w","e","d">>
S_jams == <<"j","a","m","s">>
S_note == <<"n","o","t","e">>

\* the example record of the schema: every field present
R_211_permitted ==
    JsonObject([ins_number |-> Some(C211), name |-> Some(N_Benzoate),
                status |-> Some(S_permitted),
                max_ppm |-> Some([whole |-> 500, tenths |-> 0]),
                allowed_in |-> Some(<<S_jams>>), notes |-> Some(S_note)])
\* the same code again, with another status
R_211_banned ==
    JsonObject([ins_number |-> Some(C211), name |-> Some(N_Benzoate),
                status |-> Some(S_banned)])
\* a status written with a capital
R_330_restricted ==
    JsonObject([ins_number |-> Some(C330), name |-> Some(N_Citric),
                status |-> Some(S_Restricted)])
\* a status word the aggregation does not know
R_330_allowed ==
    JsonObject([ins_number |-> Some(C330), status |-> Some(S_allowed)])
\* no status
R_100_nostatus ==
    JsonObject([ins_number |-> Some(C100), name |-> Some(N_Curcumin)])
\* a concentration limit with a fractional part
R_100_fraction ==
    JsonObject([ins_number |-> Some(C100), status |-> Some(S_permitted),
                max_ppm |-> Some([whole |-> 0, tenths |-> 5])])
\* a partial record: no code
R_nocode ==
    JsonObject([name |-> Some(N_Curcumin), status |-> Some(S_permitted)])
\* a malformed record: name is null
R_nullname ==
    JsonObject([ins_number |-> Some(C330), name |-> None,
                status |-> Some(S_banned)])
\* a malformed record: not an object
R_scalar == JsonNumber

RecordSet == {R_211_permitted, R_211_banned, R_330_restricted, R_330_allowed,
              R_100_nostatus, R_100_fraction, R_nocode, R_nullname, R_scalar}

SourceMissing == [kind |-> "missing", records |-> <<>>]
SourceCorrupt == [kind |-> "corrupt", records |-> <<>>]
SourceOk(records) == [kind |-> "ok", records |-> records]

Sources ==
    {SourceMissing, SourceCorrupt}
        \cup {SourceOk(r) : r \in SeqsUpTo(RecordSet, MaxRecords)}

\* pieces of ingredient text
T_INS == <<"I","N","S">>
T_ins == <<"i","n","s">>
T_E == <<"E">>
T_e == <<"e">>
T_space == <<" ">>
T_hyphen == <<"-">>
T_one == <<"1">>
T_note == <<"(","x",")">>
T_open == <<"(">>
T_close == <<")">>
T_salt == <<"s","a","l","t">>

SampleTexts ==
    { T_salt,
      T_INS \o T_space \o C211 \o T_space \o T_note,
      T_INS \o T_space \o C211 \o <<",">> \o T_E \o C330,
      T_E \o C100,
      T_ins \o T_hyphen \o C330 \o T_space \o T_e \o C100 }

QueryCodes == {C211, C330, C100, C999}
QueryNames == {N_Benzoate, StrLower(N_Benzoate), N_Curcumin}

Tokens == {T_INS, T_ins, T_E, T_e, T_space, T_hyphen, C211, T_one,
           T_note, T_open, T_close}

RECURSIVE TextsUpTo(_)
TextsUpTo(n) ==
    IF n = 0 THEN {<<>>}
    ELSE LET shorter == TextsUpTo(n - 1)
         IN  shorter \cup {t \o tok : t \in shorter, tok \in Tokens}

ExtractSources == {SourceOk(<<R_211_permitted, R_330_allowed>>)}

StatusWords == {S_permitted, S_restricted, S_banned, S_unknown,
                S_Permitted, S_allowed}
DetailWith(status) ==
    IngredientDetail(T_E \o C211, Some(C211), None, Some(status), None, None, None)
DetailLists == {[i \in DOMAIN w |-> DetailWith(w[i])] :
                    w \in SeqsUpTo(StatusWords, MaxDetails)}

(***************************************************************************)
(* State.                                                                  *)
(***************************************************************************)
Callers == 1..NumCallers

KB == [additives |-> additives, name_to_ins |-> name_to_ins, loaded |-> loaded]
SetKB(kb) ==
    /\ additives' = kb.additives
    /\ name_to_ins' = kb.name_to_ins
    /\ loaded' = kb.loaded

NoResult == [outcome |-> "none", ingredients |-> <<>>, product_compliance |-> "none"]

\* FSSAIKnowledgeBase.__init__, and nothing called yet
InitCommon ==
    /\ additives = NewKB.additives
    /\ name_to_ins = NewKB.name_to_ins
    /\ loaded = NewKB.loaded
    /\ result = NoResult
    /\ lastOp = "init"
    /\ lookup = None
    /\ product_compliance = "none"
    /\ pc = [c \in Callers |-> "check"]
    /\ data = [c \in Callers |-> <<>>]
    /\ idx = [c \in Callers |-> 1]
    /\ ret = [c \in Callers |-> None]
    /\ loadRuns = 0

(***************************************************************************)
(* The public methods, one call each.                                      *)
(***************************************************************************)
Load ==
    /\ SetKB(load(KB, data_source))
    /\ lastOp' = "load"
    /\ lookup' = None
    /\ UNCHANGED <<data_source, ingredients_text, result, ingredients,
                   product_compliance, concVars>>

LookupByIns ==
    \E ins_number \in QueryCodes :
        LET r == lookup_by_ins(KB, data_source, ins_number)
        IN  /\ SetKB(r.kb)
            /\ lastOp' = "lookup_by_ins"
            /\ lookup' = [arg |-> ins_number, value |-> r.value]
            /\ UNCHANGED <<data_source, ingredients_text, result, ingredients,
                           product_compliance, concVars>>

LookupByName ==
    \E name \in QueryNames :
        LET r == lookup_by_name(KB, data_source, name)
        IN  /\ SetKB(r.kb)
            /\ lastOp' = "lookup_by_name"
            /\ lookup' = [arg |-> name, value |-> r.value]
            /\ UNCHANGED <<data_source, ingredients_text, result, ingredients,
                           product_compliance, concVars>>

GetAllAdditives ==
    LET r == get_all_additives(KB, data_source)
    IN  /\ SetKB(r.kb)
        /\ lastOp' = "get_all_additives"
        /\ lookup' = [arg |-> <<>>, value |-> r.value]
        /\ UNCHANGED <<data_source, ingredients_text, result, ingredients,
                       product_compliance, concVars>>

Analyze ==
    LET r == analyze_ingredients_text(KB, data_source, ingredients_text)
    IN  /\ SetKB(r.kb)
        /\ lastOp' = "analyze"
        /\ result' = [outcome |-> r.outcome, ingredients |-> r.ingredients,
                      product_compliance |-> r.product_compliance]
        /\ lookup' = None
        /\ UNCHANGED <<data_source, ingredients_text, ingredients,
                       product_compliance, concVars>>

Init ==
    /\ InitCommon
    /\ data_source \in Sources
    /\ ingredients_text \in SampleTexts
    /\ ingredients = <<>>

Next == Load \/ LookupByIns \/ LookupByName \/ GetAllAdditives \/ Analyze

Spec == Init /\ [][Next]_vars

(***************************************************************************)
(* Extraction: the knowledge base methods used by an analysis, over every  *)
(* text of at most MaxTokens tokens.                                       *)
(***************************************************************************)
InitExtract ==
    /\ InitCommon
    /\ data_source \in ExtractSources
    /\ ingredients_text \in TextsUpTo(MaxTokens)
    /\ ingredients = <<>>

NextExtract == Analyze

SpecExtract == InitExtract /\ [][NextExtract]_vars

(***************************************************************************)
(* Aggregation: _determine_product_compliance called on a list of details. *)
(***************************************************************************)
DetermineProductCompliance ==
    /\ product_compliance = "none"
    /\ product_compliance' = _determine_product_compliance(ingredients)
    /\ lastOp' = "_determine_product_compliance"
    /\ UNCHANGED <<data_source, kbVars, ingredients_text, result, lookup,
                   ingredients, concVars>>

InitVerdict ==
    /\ InitCommon
    /\ data_source = SourceMissing
    /\ ingredients_text = <<>>
    /\ ingredients \in DetailLists

NextVerdict == DetermineProductCompliance

SpecVerdict == InitVerdict /\ [][NextVerdict]_vars

(***************************************************************************)
(* Concurrent first callers of lookup_by_ins(C211) on one knowledge base.  *)
(* Each caller runs the statements of lookup_by_ins and load one at a      *)
(* time; the methods hold no lock, so the callers interleave between       *)
(* statements.                                                             *)
(*   check  : if not self.loaded                                           *)
(*   exists : load() entered; if not self.data_path.exists()               *)
(*   read   : open, json.load                                              *)
(*   index  : one iteration of the loop, or its end: self.loaded = True    *)
(*   get    : return self.additives.get(ins_number)                        *)
(***************************************************************************)
Goto(c, label) == pc' = [pc EXCEPT ![c] = label]

ConcCheck(c) ==
    /\ pc[c] = "check"
    /\ IF loaded
       THEN Goto(c, "get") /\ UNCHANGED loadRuns
       ELSE Goto(c, "exists") /\ loadRuns' = loadRuns + 1
    /\ UNCHANGED <<data_source, kbVars, ingredients_text, result, lastOp, lookup,
                   ingredients, product_compliance, data, idx, ret>>

ConcExists(c) ==
    /\ pc[c] = "exists"
    /\ IF data_source.kind = "missing"
       THEN SetKB(LoadMissing(KB)) /\ Goto(c, "get")
       ELSE UNCHANGED kbVars /\ Goto(c, "read")
    /\ UNCHANGED <<data_source, ingredients_text, result, lastOp, lookup,
                   ingredients, product_compliance, data, idx, ret, loadRuns>>

ConcRead(c) ==
    /\ pc[c] = "read"
    /\ IF data_source.kind = "corrupt"
       THEN SetKB(LoadFailed(KB)) /\ Goto(c, "get") /\ UNCHANGED <<data, idx>>
       ELSE /\ data' = [data EXCEPT ![c] = data_source.records]
            /\ idx' = [idx EXCEPT ![c] = 1]
            /\ Goto(c, "index")
            /\ UNCHANGED kbVars
    /\ UNCHANGED <<data_source, ingredients_text, result, lastOp, lookup,
                   ingredients, product_compliance, ret, loadRuns>>

ConcIndex(c) ==
    /\ pc[c] = "index"
    /\ IF idx[c] > Len(data[c])
       THEN SetKB([KB EXCEPT !.loaded = TRUE]) /\ Goto(c, "get") /\ UNCHANGED idx
       ELSE IF RecordRaises(data[c][idx[c]])
       THEN SetKB(LoadFailed(KB)) /\ Goto(c, "get") /\ UNCHANGED idx
       ELSE /\ SetKB(IndexOne(KB, data[c][idx[c]]))
            /\ idx' = [idx EXCEPT ![c] = idx[c] + 1]
            /\ UNCHANGED pc
    /\ UNCHANGED <<data_source, ingredients_text, result, lastOp, lookup,
                   ingredients, product_compliance, data, ret, loadRuns>>

ConcGet(c) ==
    /\ pc[c] = "get"
    /\ ret' = [ret EXCEPT ![c] = [value |-> AdditivesGet(additives, C211)]]
    /\ Goto(c, "done")
    /\ UNCHANGED <<data_source, kbVars, ingredients_text, result, lastOp, lookup,
                   ingredients, product_compliance, data, idx, loadRuns>>

InitConc ==
    /\ InitCommon
    /\ data_source \in Sources
    /\ ingredients_text = <<>>
    /\ ingredients = <<>>

NextConc ==
    \E c \in Callers :
        ConcCheck(c) \/ ConcExists(c) \/ ConcRead(c) \/ ConcIndex(c) \/ ConcGet(c)

SpecConc == InitConc /\ [][NextConc]_vars

(***************************************************************************)
(* Properties.                                                             *)
(***************************************************************************)
CanonicalStatuses == {S_permitted, S_restricted, S_banned, S_unknown}

StatusesOf(ings) == {ings[i].status : i \in 1..Len(ings)}

\* the precedence rule over the set of statuses present
PrecedenceVerdict(present) ==
    IF present = {} THEN "unknown"
    ELSE IF S_banned \in present THEN "non_compliant"
    ELSE IF S_restricted \in present THEN "partially_compliant"
    ELSE IF S_unknown \in present THEN "unknown"
    ELSE "compliant"

\* C1: for every list of details whose statuses are among permitted,
\* restricted, banned and unknown, _determine_product_compliance returns the
\* verdict the precedence rule gives for the set of statuses present (empty:
\* unknown; banned: non_compliant; else restricted: partially_compliant; else
\* unknown: unknown; else compliant), whatever their order and multiplicity.
C1_PrecedenceRule ==
    (product_compliance # "none" /\ StatusesOf(ingredients) \subseteq CanonicalStatuses)
        => product_compliance = PrecedenceVerdict(StatusesOf(ingredients))

C1_Witness ==
    /\ product_compliance = "unknown"
    /\ StatusesOf(ingredients) = {S_permitted, S_unknown}
    /\ Len(ingredients) = 3

AllOptionalAbsent(d) ==
    /\ d.name = None
    /\ d.max_ppm = None
    /\ d.allowed_in = None
    /\ d.notes = None

SourceUnavailable == data_source.kind \in {"missing", "corrupt"}

C3_LoadBodyRunsAtMostOnce == loadRuns <= 1

\* C4: an analysis call leaves the code index, the name index and the loaded
\* flag as they were, also on a knowledge base on which load has not run.
C4_AnalysisMutatesNothing ==
    [][lastOp' = "analyze" => UNCHANGED kbVars]_vars

\* C4 as amended: an analysis call leaves the indexes and the loaded flag as
\* they were when load has run before or the text holds no additive code; on a
\* knowledge base not yet loaded, a text with at least one code makes the call
\* perform the implicit load.
C4_AnalysisMutatesOnlyByImplicitLoad ==
    [][lastOp' = "analyze" =>
          IF loaded \/ extract_additives(ingredients_text) = <<>>
          THEN UNCHANGED kbVars
          ELSE /\ loaded'
               /\ additives' = load(KB, data_source).additives
               /\ name_to_ins' = load(KB, data_source).name_to_ins]_vars

C4_Witness ==
    /\ lastOp = "analyze"
    /\ result.outcome = "returned"
    /\ Len(result.ingredients) = 2
    /\ DOMAIN additives = {C211, C330}

\* a well-formed record: an object with a non-empty code whose name, when it
\* has one, is a string
WellFormed(additive) ==
    /\ additive.type = "object"
    /\ Truthy(DictGet(additive.members, "ins_number"))
    /\ "name" \in DOMAIN additive.members => additive.members["name"] # None

CodeOf(additive) == TheValue(DictGet(additive.members, "ins_number"))

\* the position of the last well-formed record that carries the code of record i
LastWithCode(records, i) ==
    CHOOSE j \in 1..Len(records) :
        /\ WellFormed(records[j])
        /\ CodeOf(records[j]) = CodeOf(records[i])
        /\ \A k \in (j + 1)..Len(records) :
               ~(WellFormed(records[k]) /\ CodeOf(records[k]) = CodeOf(records[i]))

\* C5: after load of a dataset that json.load could parse, every record with a
\* non-empty code is returned by lookup_by_ins, before or after a malformed
\* record, and of several records with one code the last is returned.
C5_WellFormedRecordsRetrievable ==
    (loaded /\ data_source.kind = "ok") =>
        \A i \in 1..Len(data_source.records) :
            WellFormed(data_source.records[i]) =>
                lookup_by_ins(KB, data_source, CodeOf(data_source.records[i])).value
                    = Some(data_source.records[
                               LastWithCode(data_source.records, i)].members)

\* a record of the shape of the dataset interface: an object with a code, and
\* no null among the members it has
InterfaceShaped(additive) ==
    /\ WellFormed(additive)
    /\ \A key \in DOMAIN additive.members : additive.members[key] # None

\* C6: with a dataset whose records all have the shape of the interface,
\* analyze_ingredients_text never raises.
C6_AnalysisNeverRaises ==
    (\A i \in 1..Len(data_source.records) : InterfaceShaped(data_source.records[i]))
        => result.outcome # "raised"

\* the raw texts from position i on occur in the text from position p on, one
\* after the other without overlap
RECURSIVE InTextOrder(_, _, _, _)
InTextOrder(text, p, raws, i) ==
    IF i > Len(raws) THEN TRUE
    ELSE LET n == Len(raws[i])
             at == {q \in p..(Len(text) - n + 1) : SubSeq(text, q, q + n - 1) = raws[i]}
         IN  /\ at # {}
             /\ InTextOrder(text, (CHOOSE q \in at : \A r \in at : q <= r) + n,
                            raws, i + 1)

RawsOf(ds) == [i \in 1..Len(ds) |-> ds[i].raw]

\* C7: an analysis returns one detail per candidate, without merging: first
\* the matches of the INS pattern, then those of the E pattern, each group in
\* left-to-right text order, and detail i carries the raw text and the code of
\* candidate i.
C7_OneDetailPerCandidateInOrder ==
    result.outcome = "returned" =>
        LET ins == finditer(ingredients_text, 1, INS_MARKER)
            e == finditer(ingredients_text, 1, E_MARKER)
            cands == ins \o e
            ds == result.ingredients
        IN  /\ Len(ds) = Len(ins) + Len(e)
            /\ \A i \in 1..Len(ds) :
                   /\ ds[i].raw = cands[i].raw
                   /\ ds[i].normalized_ins = Some(cands[i].code)
            /\ InTextOrder(ingredients_text, 1, RawsOf(SubSeq(ds, 1, Len(ins))), 1)
            /\ InTextOrder(ingredients_text, 1,
                           RawsOf(SubSeq(ds, Len(ins) + 1, Len(ds))), 1)

C7_Witness ==
    /\ ingredients_text = T_E \o C211 \o T_INS \o C211
    /\ result.outcome = "returned"
    /\ RawsOf(result.ingredients) = <<T_INS \o C211, T_E \o C211>>

KBOps == {"load", "lookup_by_ins", "lookup_by_name", "get_all_additives"}

\* C8: the loaded flag starts false, is true after every call of load,
\* lookup_by_ins, lookup_by_name and get_all_additives, and never goes back
\* from true to false.
C8_LoadedSetOnceNeverReset ==
    /\ ~loaded
    /\ [][/\ loaded => loaded'
          /\ lastOp' \in KBOps => loaded']_vars

C8_Witness ==
    /\ lastOp = "lookup_by_name"
    /\ loaded
    /\ data_source.kind = "corrupt"
    /\ lookup.value = None

IsDigitChar(c) == c \in {"0","1","2","3","4","5","6","7","8","9"}

\* the digits of a raw match that stand before its parenthesized annotation
DigitsBeforeAnnotation(raw) ==
    LET opens == {q \in 1..Len(raw) : raw[q] = "("}
        stop == IF opens = {} THEN Len(raw) + 1
                ELSE CHOOSE q \in opens : \A r \in opens : q <= r
    IN  SelectSeq(SubSeq(raw, 1, stop - 1), IsDigitChar)

\* C9: the code of every detail is the 3 or 4 digits of its raw match, whatever
\* the case of the marker, the separator and the annotation: INS or ins,
\* followed by nothing, a space or a hyphen, then 211, then an annotation or
\* none, gives the one code 211.
C9_CodeIsDigitsOnly ==
    result.outcome = "returned" =>
        /\ \A i \in 1..Len(result.ingredients) :
               LET d == result.ingredients[i]
                   code == TheValue(d.normalized_ins)
               IN  /\ d.normalized_ins # None
                   /\ Len(code) \in {3, 4}
                   /\ \A k \in 1..Len(code) : IsDigitChar(code[k])
                   /\ code = DigitsBeforeAnnotation(d.raw)
        /\ \A marker \in {T_INS, T_ins} :
           \A sep \in {<<>>, T_space, T_hyphen} :
           \A note \in {<<>>, T_note} :
               ingredients_text = marker \o sep \o C211 \o note =>
                   /\ Len(result.ingredients) = 1
                   /\ result.ingredients[1].normalized_ins = Some(C211)

C9_Witness ==
    /\ ingredients_text = T_ins \o T_hyphen \o C211 \o T_note
    /\ result.outcome = "returned"
    /\ result.ingredients[1].normalized_ins = Some(C211)
    /\ result.ingredients[1].raw = ingredients_text

\* C10: an analysis returns compliant only if it returns at least one detail
\* and the status of every detail, lower-cased, is permitted.
C10_CompliantCertifiesEveryAdditive ==
    (result.outcome = "returned" /\ result.product_compliance = "compliant") =>
        /\ Len(result.ingredients) >= 1
        /\ \A i \in 1..Len(result.ingredients) :
               StrLower(result.ingredients[i].status) = S_permitted

====
